---------------------------- MODULE Spec2Model ----------------------------
(***************************************************************************)
(* Reminder bot: the Status Store (storage.py, ConfirmationStorage), the   *)
(* Subscriber Registry (SubscribersStorage), the Message Tracker           *)
(* (ReminderMessagesStorage) and the reminder lifecycle handlers of bot.py *)
(* (send_reminder, send_nag_reminder, handle_callback, test_reminder,      *)
(* admin_test_reminder, admin_test_nag, start, stop).                      *)
(*                                                                         *)
(* The specifications:                                                     *)
(*   StoreSpec  the Status Store alone, driven by arbitrary calls of its   *)
(*              methods on the persisted file;                             *)
(*   LockSpec   threads calling the Status Store at the same time, every   *)
(*              method step by step;                                       *)
(*   TrackerSpec  the Message Tracker alone, likewise;                     *)
(*   RegistrySpec  the Subscriber Registry alone, likewise;                *)
(*   Spec       the bot: every handler is one action, run to completion,   *)
(*              every network call succeeding;                             *)
(*   FaultSpec  the bot with a network call that fails, the file edited by *)
(*              hand, or a callback query no button carries;               *)
(*   DailySpec  the daily reminder, its timers and the presses, with a     *)
(*              network call that fails;                                   *)
(*   NagSpec    the users' commands and presses and the timers, with the   *)
(*              escalation notifications counted;                          *)
(*   RaceSpec   the daily reminder, its timers and the presses, the        *)
(*              handlers suspended at their awaits;                        *)
(*   EscalationSpec  the daily reminder and its timers with nobody         *)
(*              pressing a button, every due job being run;                *)
(*   LossSpec   the daily reminder, /atest_nag, the timers and the         *)
(*              presses, with a network call that fails and the            *)
(*              escalation notifications counted.                          *)
(***************************************************************************)
EXTENDS Integers, Sequences, FiniteSets, Bags, TLC

VARIABLES
    file,         \* ConfirmationStorage: the persisted JSON document
    call,         \* StoreSpec: the last Status Store call, its arguments, the file before it, its result
    subscribers,  \* SubscribersStorage._subscribers
    messages,     \* ReminderMessagesStorage._messages
    photos,       \* ReminderMessagesStorage._photos
    threads,      \* LockSpec: the store's lock and the threads that call its methods; RaceSpec: the handlers suspended at an await
    jobs,         \* the job queue's pending send_nag_reminder jobs (a bag: names need not be unique)
    live,         \* messages with confirm/skip buttons present in the chats
    today,        \* the current calendar day (CONFIG.tz_aware_now, %Y-%m-%d)
    fired,        \* the daily reminder jobs that already ran today
    dispatches,   \* number of reminders dispatched so far (one per chat and dispatch)
    faults,       \* number of faults so far: failed network calls, edits of the file by hand
    presses,      \* number of button presses handled so far
    nags,         \* per (chat, day, slot): escalation notifications sent so far
    ev            \* the last step, when it ran a handler of the reminder lifecycle:
                  \* what the handler was called with and what it did

vars == <<file, call, subscribers, messages, photos, threads, jobs, live, today, fired,
          dispatches, faults, presses, nags, ev>>

----------------------------------------------------------------------------
(* Python values *)

\* None, and now.isoformat(): the clock's reading t as <<t>>, so that the
\* two can be compared
None == <<>>
isoformat(t) == <<t>>

\* the empty dict {}
EmptyDict == [x \in {} |-> x]

\* d.get(k, default)
Get(d, k, default) == IF k \in DOMAIN d THEN d[k] ELSE default

\* d after d[k] = v
Put(d, k, v) == [x \in (DOMAIN d) \cup {k} |-> IF x = k THEN v ELSE d[x]]

\* d after d.setdefault(k, v)
SetDefault(d, k, v) == IF k \in DOMAIN d THEN d ELSE Put(d, k, v)

\* d after d.update(u)
Update(d, u) ==
    [x \in (DOMAIN d) \cup (DOMAIN u) |-> IF x \in DOMAIN u THEN u[x] ELSE d[x]]

\* d after d.pop(k, ...)
Pop(d, k) == [x \in (DOMAIN d) \ {k} |-> d[x]]

\* Python truthiness of day.get(k): None when k is missing, falsy when it is {}
TruthyAt(d, k) == k \in DOMAIN d /\ DOMAIN d[k] # {}

----------------------------------------------------------------------------
(* ConfirmationStorage.  The file is a dict day_key -> slot -> entry, an   *)
(* entry a dict with the keys status, sent_at, confirmed_at.  Every method *)
(* reads the whole file, and writes it back only where the code calls      *)
(* _write; a method is modelled by the file it leaves and what it returns. *)

\* make_day_key: f"{chat_id}:{date_key}"; the pair <<chat_id, date_key>>
\* (chat_id has no ':' and date_key is %Y-%m-%d, so the string determines both)
make_day_key(chat_id, date_key) == <<chat_id, date_key>>

\* ConfirmationStorage.__init__ writes {} when there is no file
InitFile == EmptyDict

mark_sent_bug_clears_day(f, day_key, slot, sent_at_iso) ==
    LET entry == [status |-> "pending", sent_at |-> sent_at_iso, confirmed_at |-> None]
    IN  [file |-> Put(f, day_key, Put(EmptyDict, slot, entry)), ret |-> "None"]

mark_sent_bug_keeps_confirmed_at(f, day_key, slot, sent_at_iso) ==
    LET data  == SetDefault(f, day_key, EmptyDict)
        day   == SetDefault(data[day_key], slot, EmptyDict)
        entry == Update(day[slot],
                        [status |-> "pending", sent_at |-> sent_at_iso,
                         confirmed_at |-> Get(day[slot], "confirmed_at", None)])
    IN  [file |-> Put(data, day_key, Put(day, slot, entry)), ret |-> "None"]

mark_sent(f, day_key, slot, sent_at_iso) ==
    LET data  == SetDefault(f, day_key, EmptyDict)
        day   == SetDefault(data[day_key], slot, EmptyDict)
        entry == Update(day[slot],
                        [status |-> "pending", sent_at |-> sent_at_iso,
                         confirmed_at |-> None])
    IN  [file |-> Put(data, day_key, Put(day, slot, entry)), ret |-> "None"]

mark_confirmed_bug_writes_day(f, day_key, slot, confirmed_at_iso) ==
    LET data  == SetDefault(f, day_key, EmptyDict)
        day   == data[day_key]
        entry == day[slot]
    IN  IF ~TruthyAt(day, slot)
        THEN [file |-> data, ret |-> "False"]
        ELSE [file |-> Put(data, day_key,
                           Put(day, slot,
                               Update(entry, [status |-> "confirmed",
                                              confirmed_at |-> confirmed_at_iso]))),
              ret |-> "True"]

mark_confirmed_bug_sent_at(f, day_key, slot, confirmed_at_iso) ==
    LET data  == SetDefault(f, day_key, EmptyDict)
        day   == data[day_key]
        entry == day[slot]
    IN  IF ~TruthyAt(day, slot)
        THEN [file |-> f, ret |-> "False"]
        ELSE [file |-> Put(data, day_key,
                           Put(day, slot,
                               Update(entry, [status |-> "confirmed",
                                              sent_at |-> confirmed_at_iso,
                                              confirmed_at |-> confirmed_at_iso]))),
              ret |-> "True"]

mark_confirmed_bug_pops(f, day_key, slot, confirmed_at_iso) ==
    LET data  == SetDefault(f, day_key, EmptyDict)
        day   == data[day_key]
    IN  IF ~TruthyAt(day, slot)
        THEN [file |-> f, ret |-> "False"]
        ELSE [file |-> Put(data, day_key, Pop(day, slot)), ret |-> "True"]

mark_confirmed(f, day_key, slot, confirmed_at_iso) ==
    LET data  == SetDefault(f, day_key, EmptyDict)
        day   == data[day_key]
        entry == day[slot]
    IN  IF ~TruthyAt(day, slot)
        THEN [file |-> f, ret |-> "False"]             \* returns before _write
        ELSE [file |-> Put(data, day_key,
                           Put(day, slot,
                               Update(entry, [status |-> "confirmed",
                                              confirmed_at |-> confirmed_at_iso]))),
              ret |-> "True"]

mark_skipped_bug_pending(f, day_key, slot, skipped_at_iso) ==
    LET data  == SetDefault(f, day_key, EmptyDict)
        day   == data[day_key]
        entry == day[slot]
    IN  IF ~TruthyAt(day, slot)
        THEN [file |-> f, ret |-> "False"]
        ELSE [file |-> Put(data, day_key,
                           Put(day, slot,
                               Update(entry, [status |-> "pending",
                                              confirmed_at |-> skipped_at_iso]))),
              ret |-> "True"]

mark_skipped(f, day_key, slot, skipped_at_iso) ==
    LET data  == SetDefault(f, day_key, EmptyDict)
        day   == data[day_key]
        entry == day[slot]
    IN  IF ~TruthyAt(day, slot)
        THEN [file |-> f, ret |-> "False"]             \* returns before _write
        ELSE [file |-> Put(data, day_key,
                           Put(day, slot,
                               Update(entry, [status |-> "skipped",
                                              confirmed_at |-> skipped_at_iso]))),
              ret |-> "True"]

\* list_day: the day's entries as ReminderStatus records.  The code returns
\* them sorted by slot; the model keeps the set, which is all its callers
\* (a search for one slot) use.
list_day(f, day_key) ==
    LET day == Get(f, day_key, EmptyDict)
    IN  { [slot         |-> s,
           status       |-> Get(day[s], "status", "pending"),
           sent_at      |-> Get(day[s], "sent_at", None),
           confirmed_at |-> Get(day[s], "confirmed_at", None)] : s \in DOMAIN day }

\* next((item for item in statuses if item.slot == slot), None), as the set
\* of the items found: empty for None
slot_status(f, day_key, slot) ==
    { item \in list_day(f, day_key) : item.slot = slot }

\* the status of a slot's record as list_day reports it, "absent" when there is none
StatusOf(f, day_key, slot) ==
    LET found == slot_status(f, day_key, slot)
    IN  IF found = {} THEN "absent" ELSE (CHOOSE item \in found : TRUE).status

----------------------------------------------------------------------------
(* Strings that the code builds and compares by prefix are sequences of    *)
(* tokens.  The tokens are cut so that every place where two of the        *)
(* strings can differ is a token boundary (digits one by one, separators   *)
(* with the word they end), which keeps startswith what it is on the       *)
(* characters.                                                              *)

Digit == <<"0", "1", "2", "3", "4", "5", "6", "7", "8", "9">>

\* str(n) of a non-negative integer
RECURSIVE Str(_)
Str(n) == IF n < 10 THEN <<Digit[n + 1]>>
          ELSE Str(n \div 10) \o <<Digit[(n % 10) + 1]>>

\* int(s): s is a decimal numeral when all its tokens are digits (else
\* int raises ValueError)
is_int(s) == Len(s) > 0 /\ \A i \in DOMAIN s : \E k \in DOMAIN Digit : Digit[k] = s[i]

RECURSIVE int(_)
int(s) ==
    LET last == CHOOSE k \in DOMAIN Digit : Digit[k] = s[Len(s)]
    IN  IF Len(s) = 1 THEN last - 1
        ELSE 10 * int(SubSeq(s, 1, Len(s) - 1)) + (last - 1)

\* "|".join(fields), fields being token sequences
RECURSIVE join(_)
join(fields) ==
    IF Len(fields) = 1 THEN fields[1]
    ELSE fields[1] \o <<"|">> \o join(Tail(fields))

\* data.split("|", 3), data given by its fields: at most three cuts, so
\* that what follows the third "|" stays one part
split3(fields) ==
    IF Len(fields) <= 4 THEN fields
    ELSE <<fields[1], fields[2], fields[3], join(SubSeq(fields, 4, Len(fields)))>>

\* s.startswith(p)
StartsWith(s, p) == Len(p) <= Len(s) /\ SubSeq(s, 1, Len(p)) = p

\* the elements of a list
Range(seq) == { seq[i] : i \in DOMAIN seq }

----------------------------------------------------------------------------
(* Configuration and inputs *)

\* chats that talk to the bot (chat.id)
Chats == {1, 12}

\* is_admin: the chat of the one user in ADMIN_USERNAMES
AdminChats == {1}
is_admin(chat) == chat \in AdminChats

\* the days the clock goes through, as strftime("%Y-%m-%d") prints them
Dates == <<"2024-01-01", "2024-01-02">>

\* CONFIG.reminder_times, each as strftime("%H:%M") prints it: the slot of
\* a daily reminder job
ReminderSlots == { <<"09:00">> }

\* what the clock reads when a test command arrives: %H:%M and the :%S after it
ClockReadings == { [hm |-> "09:00", sec |-> ":05"] }

\* slot = f"ТЕСТ-{now.strftime('%H:%M')}" (test_reminder)
TestSlot(clk) == <<"TEST-", clk.hm>>
\* slot = f"ТЕСТ-{now.strftime('%H:%M:%S')}" (admin_test_reminder)
AdminTestSlot(clk) == <<"TEST-", clk.hm, clk.sec>>
\* slot = f"НАГ-{now.strftime('%H:%M:%S')}" (admin_test_nag)
AdminNagSlot(clk) == <<"NAG-", clk.hm, clk.sec>>

\* nagging stops after this many reminders: "if nag_count < 6"
NagLimit == 6

\* bounds of the model: reminders dispatched, network calls that fail,
\* button presses handled
MaxDispatches == 2
FaultDispatches == 1
MaxFaults == 1
MaxPresses == 2

----------------------------------------------------------------------------
(* ReminderMessagesStorage *)

\* _make_key: f"{chat_id}:{day_key}:{slot}"; the triple (chat_id has no ':'
\* and day_key is ten characters, so the string determines all three)
_make_key(chat_id, day_key, slot) == <<chat_id, day_key, slot>>

add_message(msgs, chat_id, day_key, slot, message_id) ==
    LET key == _make_key(chat_id, day_key, slot)
    IN  Put(msgs, key, Append(Get(msgs, key, <<>>), message_id))

\* set_photo (bot.py never calls it)
set_photo(ph, chat_id, day_key, slot, file_id) ==
    Put(ph, _make_key(chat_id, day_key, slot), file_id)

\* clear_messages: the _messages and _photos it leaves and the pair
\* (messages, photo) it returns
clear_messages_bug_keeps(msgs, ph, chat_id, day_key, slot) ==
    LET key == _make_key(chat_id, day_key, slot)
    IN  [messages |-> msgs, photos |-> Pop(ph, key),
         ret |-> <<Get(msgs, key, <<>>), Get(ph, key, None)>>]

clear_messages(msgs, ph, chat_id, day_key, slot) ==
    LET key == _make_key(chat_id, day_key, slot)
    IN  [messages |-> Pop(msgs, key), photos |-> Pop(ph, key),
         ret |-> <<Get(msgs, key, <<>>), Get(ph, key, None)>>]

----------------------------------------------------------------------------
(* The job queue.  A job is what run_once was given: its name and data.    *)

nag_name(chat_id, day_key, slot, nag_count) ==
    <<"nag-">> \o Str(chat_id) \o <<"-", day_key, "-">> \o slot \o <<"-">> \o Str(nag_count)

nag_job(chat_id, day_key, slot, nag_count) ==
    [name |-> nag_name(chat_id, day_key, slot, nag_count),
     data |-> [day_key |-> day_key, slot |-> slot, chat_id |-> chat_id,
               nag_count |-> nag_count]]

\* job_queue.run_once(send_nag_reminder, ..., name, data)
run_once(q, job) == q (+) SetToBag({job})

\* a run_once job leaves the queue when it runs
job_done(q, job) == q (-) SetToBag({job})

\* cancel_nag_reminders: every job whose name starts with the slot's prefix
\* is removed, in all its copies
cancel_nag_reminders_bug_first(q, chat_id, day_key, slot) ==
    LET name == nag_name(chat_id, day_key, slot, 1)
        keep == { j \in BagToSet(q) : j.name # name }
    IN  [j \in keep |-> q[j]]

cancel_nag_reminders_bug_no_dash(q, chat_id, day_key, slot) ==
    LET prefix == <<"nag-">> \o Str(chat_id) \o <<"-", day_key, "-">> \o slot
        keep   == { j \in BagToSet(q) : ~StartsWith(j.name, prefix) }
    IN  [j \in keep |-> q[j]]

cancel_nag_reminders(q, chat_id, day_key, slot) ==
    LET prefix == <<"nag-">> \o Str(chat_id) \o <<"-", day_key, "-">> \o slot \o <<"-">>
        keep   == { j \in BagToSet(q) : ~StartsWith(j.name, prefix) }
    IN  [j \in keep |-> q[j]]

----------------------------------------------------------------------------
(* The chats.  A message with the confirm/skip keyboard is in `live` from  *)
(* its send until its delete; build_keyboard puts chat_id, day_key and     *)
(* slot in its callback data.                                              *)

\* build_keyboard: callback_data=f"{action}|{chat_id}|{day_key}|{slot}", as
\* its fields
callback_data(action, chat_id, day_key, slot) ==
    <<action, Str(chat_id), day_key, slot>>

button_message(chat_id, message_id, day_key, slot) ==
    [chat |-> chat_id, id |-> message_id, day_key |-> day_key, slot |-> slot]

\* message.message_id of a new message.  Telegram numbers the messages of a
\* chat; the bot only stores the ids and compares them for equality, so an
\* id is a token <<day_key, slot, k>>: the slot the message was sent for
\* and the least serial number k that no message of that slot still known
\* to the chat or to the tracker has.
KnownSerials(lv, msgs, chat_id, day_key, slot) ==
    { m.id[3] : m \in { x \in lv : x.chat = chat_id /\ x.day_key = day_key /\ x.slot = slot } }
        \cup { id[3] : id \in Range(Get(msgs, _make_key(chat_id, day_key, slot), <<>>)) }

FreshId(lv, msgs, chat_id, day_key, slot) ==
    LET known == KnownSerials(lv, msgs, chat_id, day_key, slot)
    IN  <<day_key, slot,
          CHOOSE k \in 1..(Cardinality(known) + 1) :
              k \notin known /\ \A j \in 1..(k - 1) : j \in known>>

\* query.edit_message_text(text): no reply_markup is given, and the message
\* loses its buttons
edit_message_text(lv, chat_id, message_id) ==
    { m \in lv : ~(m.chat = chat_id /\ m.id = message_id) }

\* bot.delete_message that succeeds
delete_message(lv, chat_id, message_id) ==
    { m \in lv : ~(m.chat = chat_id /\ m.id = message_id) }

----------------------------------------------------------------------------
(* The handlers.  A handler works on the bot's state b (file, messages,    *)
(* photos, jobs, live, nags) and notes what it did: sent (the button messages it   *)
(* sent), sched (the jobs it scheduled), notice (the resolution notice was *)
(* sent), ret (what the store's mutator returned), refused (it refused the *)
(* command), swallowed (it caught a BadRequest), raised (it ended in an    *)
(* exception: what it had done by then stays done).                        *)

\* SubscribersStorage.add, remove (set.discard), contains: _subscribers is a
\* Python set
add_bug_toggle(subs, chat_id) ==
    IF chat_id \in subs THEN subs \ {chat_id} ELSE subs \cup {chat_id}

add(subs, chat_id) == subs \cup {chat_id}

remove(subs, chat_id) == subs \ {chat_id}

contains(subs, chat_id) == chat_id \in subs

\* SubscribersStorage.get_all
get_all_bug_admin(subs) == subs \cup AdminChats

get_all(subs) == subs

\* the lists list(set) may give
Orders(S) ==
    { o \in [1..Cardinality(S) -> S] : \A c \in S : \E i \in DOMAIN o : o[i] = c }

\* the body of send_reminder's loop for one subscriber; ok: send_message succeeds
reminder_body_bug_no_track(b, chat_id, day_key, slot, timestamp, ok) ==
    LET f1 == mark_sent(b.file, make_day_key(chat_id, day_key), slot, timestamp).file
        id == FreshId(b.live, b.messages, chat_id, day_key, slot)
        job == nag_job(chat_id, day_key, slot, 1)
    IN  IF ~ok
        THEN [b EXCEPT !.file = f1, !.raised = TRUE]
        ELSE [b EXCEPT !.file = f1,
                       !.live = @ \cup {button_message(chat_id, id, day_key, slot)},
                       !.sent = Append(@, [chat |-> chat_id, id |-> id]),
                       !.jobs = run_once(@, job),
                       !.sched = Append(@, job)]

reminder_body_bug_no_record(b, chat_id, day_key, slot, timestamp, ok) ==
    LET id == FreshId(b.live, b.messages, chat_id, day_key, slot)
        job == nag_job(chat_id, day_key, slot, 1)
    IN  IF ~ok
        THEN [b EXCEPT !.raised = TRUE]
        ELSE [b EXCEPT !.live = @ \cup {button_message(chat_id, id, day_key, slot)},
                       !.sent = Append(@, [chat |-> chat_id, id |-> id]),
                       !.messages = add_message(@, chat_id, day_key, slot, id),
                       !.jobs = run_once(@, job),
                       !.sched = Append(@, job)]

reminder_body(b, chat_id, day_key, slot, timestamp, ok) ==
    LET f1 == mark_sent(b.file, make_day_key(chat_id, day_key), slot, timestamp).file
        id == FreshId(b.live, b.messages, chat_id, day_key, slot)
        job == nag_job(chat_id, day_key, slot, 1)
    IN  IF ~ok
        THEN [b EXCEPT !.file = f1, !.raised = TRUE]
        ELSE [b EXCEPT !.file = f1,
                       !.live = @ \cup {button_message(chat_id, id, day_key, slot)},
                       !.sent = Append(@, [chat |-> chat_id, id |-> id]),
                       !.messages = add_message(@, chat_id, day_key, slot, id),
                       !.jobs = run_once(@, job),
                       !.sched = Append(@, job)]

\* "for chat_id in subscribers", from the i-th on; the send to the
\* failAt-th raises (0: none does)
RECURSIVE reminder_loop(_, _, _, _, _, _, _)
reminder_loop(b, order, i, day_key, slot, timestamp, failAt) ==
    IF i > Len(order) THEN b
    ELSE LET b1 == reminder_body(b, order[i], day_key, slot, timestamp, i # failAt)
         IN  IF b1.raised THEN b1
             ELSE reminder_loop(b1, order, i + 1, day_key, slot, timestamp, failAt)

send_reminder(b, order, day_key, slot, timestamp, failAt) ==
    IF Len(order) = 0 THEN b
    ELSE reminder_loop(b, order, 1, day_key, slot, timestamp, failAt)

\* test_reminder (/test): the reply is not given to the tracker
test_reminder(b, subs, chat_id, day_key, clk, timestamp, ok) ==
    IF ~contains(subs, chat_id) THEN [b EXCEPT !.refused = TRUE]
    ELSE LET slot == TestSlot(clk)
             f1 == mark_sent(b.file, make_day_key(chat_id, day_key), slot, timestamp).file
             id == FreshId(b.live, b.messages, chat_id, day_key, slot)
             job == nag_job(chat_id, day_key, slot, 1)
         IN  IF ~ok
             THEN [b EXCEPT !.file = f1, !.raised = TRUE]
             ELSE [b EXCEPT !.file = f1,
                            !.live = @ \cup {button_message(chat_id, id, day_key, slot)},
                            !.sent = Append(@, [chat |-> chat_id, id |-> id]),
                            !.jobs = run_once(@, job),
                            !.sched = Append(@, job)]

\* admin_test_reminder (/atest); failAt: 1 the reminder's send raises, 2 the
\* "sent" reply after it raises, 0 neither
admin_test_reminder(b, chat_id, day_key, clk, timestamp, failAt) ==
    IF ~is_admin(chat_id) THEN [b EXCEPT !.refused = TRUE]
    ELSE LET slot == AdminTestSlot(clk)
             f1 == mark_sent(b.file, make_day_key(chat_id, day_key), slot, timestamp).file
             id == FreshId(b.live, b.messages, chat_id, day_key, slot)
             job == nag_job(chat_id, day_key, slot, 1)
             b1 == [b EXCEPT !.file = f1]
             b2 == [b1 EXCEPT !.live = @ \cup {button_message(chat_id, id, day_key, slot)},
                              !.sent = Append(@, [chat |-> chat_id, id |-> id])]
         IN  IF failAt = 1 THEN [b1 EXCEPT !.raised = TRUE]
             ELSE IF failAt = 2 THEN [b2 EXCEPT !.raised = TRUE]
             ELSE [b2 EXCEPT !.messages = add_message(@, chat_id, day_key, slot, id),
                             !.jobs = run_once(@, job),
                             !.sched = Append(@, job)]

\* admin_test_nag (/atest_nag): no job is scheduled; failAt as above
admin_test_nag(b, chat_id, day_key, clk, timestamp, failAt) ==
    IF ~is_admin(chat_id) THEN [b EXCEPT !.refused = TRUE]
    ELSE LET slot == AdminNagSlot(clk)
             f1 == mark_sent(b.file, make_day_key(chat_id, day_key), slot, timestamp).file
             id == FreshId(b.live, b.messages, chat_id, day_key, slot)
             b1 == [b EXCEPT !.file = f1]
             b2 == [b1 EXCEPT !.live = @ \cup {button_message(chat_id, id, day_key, slot)},
                              !.sent = Append(@, [chat |-> chat_id, id |-> id]),
                              !.messages = add_message(@, chat_id, day_key, slot, id)]
         IN  IF failAt = 1 THEN [b1 EXCEPT !.raised = TRUE]
             ELSE IF failAt = 2 THEN [b2 EXCEPT !.raised = TRUE]
             ELSE b2

\* send_nag_reminder, run for `job`; ok: send_message succeeds
send_nag_reminder_bug_no_check(b, job, ok) ==
    LET d  == job.data
        id == FreshId(b.live, b.messages, d.chat_id, d.day_key, d.slot)
        key == _make_key(d.chat_id, d.day_key, d.slot)
        next == nag_job(d.chat_id, d.day_key, d.slot, d.nag_count + 1)
        b0 == [b EXCEPT !.jobs = job_done(@, job)]
        b1 == [b0 EXCEPT !.live = @ \cup {button_message(d.chat_id, id, d.day_key, d.slot)},
                         !.sent = Append(@, [chat |-> d.chat_id, id |-> id]),
                         !.messages = add_message(@, d.chat_id, d.day_key, d.slot, id),
                         !.nags = Put(@, key, Get(@, key, 0) + 1)]
    IN  IF ~ok THEN [b0 EXCEPT !.raised = TRUE]
        ELSE IF d.nag_count < NagLimit
        THEN [b1 EXCEPT !.jobs = run_once(@, next), !.sched = Append(@, next)]
        ELSE b1

send_nag_reminder_bug_off_by_one(b, job, ok) ==
    LET d  == job.data
        found == slot_status(b.file, make_day_key(d.chat_id, d.day_key), d.slot)
        id == FreshId(b.live, b.messages, d.chat_id, d.day_key, d.slot)
        key == _make_key(d.chat_id, d.day_key, d.slot)
        next == nag_job(d.chat_id, d.day_key, d.slot, d.nag_count + 1)
        b0 == [b EXCEPT !.jobs = job_done(@, job)]
        b1 == [b0 EXCEPT !.live = @ \cup {button_message(d.chat_id, id, d.day_key, d.slot)},
                         !.sent = Append(@, [chat |-> d.chat_id, id |-> id]),
                         !.messages = add_message(@, d.chat_id, d.day_key, d.slot, id),
                         !.nags = Put(@, key, Get(@, key, 0) + 1)]
    IN  IF found = {} \/ (CHOOSE item \in found : TRUE).status # "pending" THEN b0
        ELSE IF ~ok THEN [b0 EXCEPT !.raised = TRUE]
        ELSE IF d.nag_count <= NagLimit
        THEN [b1 EXCEPT !.jobs = run_once(@, next), !.sched = Append(@, next)]
        ELSE b1

send_nag_reminder_bug_stops_early(b, job, ok) ==
    LET d  == job.data
        found == slot_status(b.file, make_day_key(d.chat_id, d.day_key), d.slot)
        id == FreshId(b.live, b.messages, d.chat_id, d.day_key, d.slot)
        key == _make_key(d.chat_id, d.day_key, d.slot)
        next == nag_job(d.chat_id, d.day_key, d.slot, d.nag_count + 1)
        b0 == [b EXCEPT !.jobs = job_done(@, job)]
        b1 == [b0 EXCEPT !.live = @ \cup {button_message(d.chat_id, id, d.day_key, d.slot)},
                         !.sent = Append(@, [chat |-> d.chat_id, id |-> id]),
                         !.messages = add_message(@, d.chat_id, d.day_key, d.slot, id),
                         !.nags = Put(@, key, Get(@, key, 0) + 1)]
    IN  IF found = {} \/ (CHOOSE item \in found : TRUE).status # "pending" THEN b0
        ELSE IF ~ok THEN [b0 EXCEPT !.raised = TRUE]
        ELSE IF d.nag_count < NagLimit - 1
        THEN [b1 EXCEPT !.jobs = run_once(@, next), !.sched = Append(@, next)]
        ELSE b1

send_nag_reminder(b, job, ok) ==
    LET d  == job.data
        found == slot_status(b.file, make_day_key(d.chat_id, d.day_key), d.slot)
        id == FreshId(b.live, b.messages, d.chat_id, d.day_key, d.slot)
        key == _make_key(d.chat_id, d.day_key, d.slot)
        next == nag_job(d.chat_id, d.day_key, d.slot, d.nag_count + 1)
        b0 == [b EXCEPT !.jobs = job_done(@, job)]
        b1 == [b0 EXCEPT !.live = @ \cup {button_message(d.chat_id, id, d.day_key, d.slot)},
                         !.sent = Append(@, [chat |-> d.chat_id, id |-> id]),
                         !.messages = add_message(@, d.chat_id, d.day_key, d.slot, id),
                         !.nags = Put(@, key, Get(@, key, 0) + 1)]
    IN  IF found = {} \/ (CHOOSE item \in found : TRUE).status # "pending" THEN b0
        ELSE IF ~ok THEN [b0 EXCEPT !.raised = TRUE]
        ELSE IF d.nag_count < NagLimit
        THEN [b1 EXCEPT !.jobs = run_once(@, next), !.sched = Append(@, next)]
        ELSE b1

\* A network call of handle_callback that fails: at "delete" the delete of
\* the i-th tracked message, at "send" the send of the notice, at "own" the
\* delete of the pressed message; kind "BadRequest" (caught) or "Other"
\* (TimedOut, NetworkError: not caught).
NoFault == [at |-> "none", i |-> 0, kind |-> "none"]

CallbackFaults(n) ==
    { [at |-> "delete", i |-> i, kind |-> k] : i \in 1..n, k \in {"BadRequest", "Other"} }
        \cup { [at |-> "send", i |-> 0, kind |-> "Other"] }
        \cup { [at |-> "own", i |-> 0, kind |-> k] : k \in {"BadRequest", "Other"} }

\* "for msg_id in message_ids", from the i-th on
RECURSIVE delete_loop(_, _, _, _, _, _)
delete_loop(b, chat_id, message_ids, i, except_message_id, fault) ==
    IF i > Len(message_ids) THEN b
    ELSE IF message_ids[i] = except_message_id
    THEN delete_loop(b, chat_id, message_ids, i + 1, except_message_id, fault)
    ELSE IF fault.at = "delete" /\ fault.i = i
    THEN IF fault.kind = "BadRequest"
         THEN delete_loop([b EXCEPT !.swallowed = TRUE],
                          chat_id, message_ids, i + 1, except_message_id, fault)
         ELSE [b EXCEPT !.raised = TRUE]
    ELSE delete_loop([b EXCEPT !.live = delete_message(@, chat_id, message_ids[i])],
                     chat_id, message_ids, i + 1, except_message_id, fault)

delete_reminder_messages(b, chat_id, day_key, slot, except_message_id, fault) ==
    LET cleared == clear_messages(b.messages, b.photos, chat_id, day_key, slot)
    IN  delete_loop([b EXCEPT !.messages = cleared.messages, !.photos = cleared.photos],
                    chat_id, cleared.ret[1], 1, except_message_id, fault)

\* handle_callback for a callback query that is not of the calendar: data
\* is query.data by its "|"-separated fields, message_chat_id and message_id
\* are query.message's
handle_callback(b, data, message_chat_id, message_id, timestamp, fault) ==
    LET parts == split3(data)
    IN
    IF Len(parts) # 4 \/ ~is_int(parts[2])
    THEN [b EXCEPT !.refused = TRUE,
                   !.live = edit_message_text(@, message_chat_id, message_id)]
    ELSE
    LET action == parts[1]
        chat_id == int(parts[2])
        day_key == parts[3]
        slot == parts[4]
        chat_day_key == make_day_key(chat_id, day_key)
        marked == IF action = "confirm"
                  THEN mark_confirmed(b.file, chat_day_key, slot, timestamp)
                  ELSE mark_skipped(b.file, chat_day_key, slot, timestamp)
        b1 == [b EXCEPT !.file = marked.file, !.ret = marked.ret]
        b2 == delete_reminder_messages(b1, chat_id, day_key, slot, message_id, fault)
        b3 == [b2 EXCEPT !.notice = TRUE]
        b4 == IF fault.at = "own" THEN [b3 EXCEPT !.swallowed = TRUE]
              ELSE [b3 EXCEPT !.live = delete_message(@, message_chat_id, message_id)]
    IN  IF message_chat_id # chat_id THEN [b EXCEPT !.refused = TRUE]
        ELSE IF action \notin {"confirm", "skip"}
        THEN [b EXCEPT !.refused = TRUE,
                       !.live = edit_message_text(@, message_chat_id, message_id)]
        ELSE IF b2.raised THEN b2
        ELSE IF fault.at = "send" THEN [b2 EXCEPT !.raised = TRUE]
        ELSE IF fault.at = "own" /\ fault.kind # "BadRequest" THEN [b3 EXCEPT !.raised = TRUE]
        ELSE [b4 EXCEPT !.jobs = cancel_nag_reminders(@, chat_id, day_key, slot)]

----------------------------------------------------------------------------
(* StoreSpec: the Status Store alone.  Any method is called with any       *)
(* arguments; call keeps the last call with the file as it was before.     *)

\* the (day key, slot) pairs the calls are made with: two slots of one day
\* key and one slot of another day key
StoreCells == { <<make_day_key(42, "2024-01-01"), "09:00">>,
                <<make_day_key(42, "2024-01-01"), "15:00">>,
                <<make_day_key(42, "2024-01-02"), "09:00">> }

\* now.isoformat() values
Timestamps == { isoformat(1), isoformat(2) }

NoCall == [op |-> "none", day_key |-> make_day_key(0, ""), slot |-> "", ts |-> None,
           pre |-> InitFile, ret |-> "None"]

NoEvent == [h |-> "none"]

\* no thread is calling a method of the store
NoThreads == <<>>

\* the bot before any handler has run, but for threads
QuietInit ==
    /\ subscribers = {}
    /\ messages = EmptyDict
    /\ photos = EmptyDict
    /\ jobs = EmptyBag
    /\ live = {}
    /\ today = 1
    /\ fired = {}
    /\ dispatches = 0
    /\ faults = 0
    /\ presses = 0
    /\ nags = EmptyDict
    /\ ev = NoEvent

BotInit == QuietInit /\ threads = NoThreads

botVars == <<subscribers, messages, photos, threads, jobs, live, today, fired, dispatches, faults, presses, nags, ev>>

StoreInit == file = InitFile /\ call = NoCall /\ BotInit

StoreCall(op, day_key, slot, ts, res) ==
    /\ file' = res.file
    /\ call' = [op |-> op, day_key |-> day_key, slot |-> slot, ts |-> ts,
                pre |-> file, ret |-> res.ret]
    /\ UNCHANGED botVars

CallMarkSent ==
    \E c \in StoreCells, ts \in Timestamps :
        StoreCall("mark_sent", c[1], c[2], ts, mark_sent(file, c[1], c[2], ts))

CallMarkConfirmed ==
    \E c \in StoreCells, ts \in Timestamps :
        StoreCall("mark_confirmed", c[1], c[2], ts, mark_confirmed(file, c[1], c[2], ts))

CallMarkSkipped ==
    \E c \in StoreCells, ts \in Timestamps :
        StoreCall("mark_skipped", c[1], c[2], ts, mark_skipped(file, c[1], c[2], ts))

StoreNext == CallMarkSent \/ CallMarkConfirmed \/ CallMarkSkipped

StoreSpec == StoreInit /\ [][StoreNext]_vars

\* whether the file f holds a record for (day_key, slot)
HasRecord(f, day_key, slot) == day_key \in DOMAIN f /\ slot \in DOMAIN f[day_key]

\* the (day key, slot) pairs that have a record in f
RecordKeys(f) == { c \in UNION { {dk} \X DOMAIN f[dk] : dk \in DOMAIN f } : TRUE }

\* the last call was a resolution call (mark_confirmed or mark_skipped)
IsResolutionCall == call.op \in {"mark_confirmed", "mark_skipped"}

\* the status the resolution call `op` stands for
TerminalOf(op) == IF op = "mark_confirmed" THEN "confirmed" ELSE "skipped"

(* C3: a markConfirmed or markSkipped call that finds a record (whatever   *)
(* its status: pending, or already confirmed or skipped) leaves its status *)
(* confirmed or skipped, never pending.                                    *)
C3_ResolutionNeverPending ==
    (IsResolutionCall /\ HasRecord(call.pre, call.day_key, call.slot))
        => StatusOf(file, call.day_key, call.slot) \in {"confirmed", "skipped"}

\* markSkipped was called on a record that markConfirmed had resolved
C3_Witness ==
    /\ call.op = "mark_skipped"
    /\ StatusOf(call.pre, call.day_key, call.slot) = "confirmed"
    /\ StatusOf(file, call.day_key, call.slot) = "skipped"

(* C4: markConfirmed / markSkipped returns true, with status and           *)
(* resolution timestamp set, exactly when the record existed; otherwise it *)
(* returns false and the persisted file is what it was (no record, no day  *)
(* entry).                                                                 *)
C4_ResolveIffExists ==
    IsResolutionCall =>
        IF HasRecord(call.pre, call.day_key, call.slot)
        THEN /\ call.ret = "True"
             /\ HasRecord(file, call.day_key, call.slot)
             /\ file[call.day_key][call.slot].status = TerminalOf(call.op)
             /\ file[call.day_key][call.slot].confirmed_at = call.ts
        ELSE /\ call.ret = "False"
             /\ file = call.pre
             /\ ~HasRecord(file, call.day_key, call.slot)

\* markConfirmed was called for a day key the (non-empty) file does not hold
C4_Witness ==
    /\ call.op = "mark_confirmed"
    /\ call.ret = "False"
    /\ call.day_key \notin DOMAIN call.pre
    /\ call.day_key \notin DOMAIN file
    /\ DOMAIN file # {}

(* C5: after markSent the record is pending with the given sent timestamp  *)
(* and no resolution timestamp, whatever it was before, and every other    *)
(* record of the file is as it was.                                        *)
C5_MarkSentFrame ==
    call.op = "mark_sent" =>
        /\ HasRecord(file, call.day_key, call.slot)
        /\ file[call.day_key][call.slot] =
               [status |-> "pending", sent_at |-> call.ts, confirmed_at |-> None]
        /\ RecordKeys(file) = RecordKeys(call.pre) \cup {<<call.day_key, call.slot>>}
        /\ \A c \in RecordKeys(call.pre) \ {<<call.day_key, call.slot>>} :
               file[c[1]][c[2]] = call.pre[c[1]][c[2]]

\* markSent overwrote a confirmed record while the same day key held another
\* slot's record and the file held another day key
C5_Witness ==
    /\ call.op = "mark_sent"
    /\ StatusOf(call.pre, call.day_key, call.slot) = "confirmed"
    /\ \E c \in RecordKeys(call.pre) : c[1] = call.day_key /\ c[2] # call.slot
    /\ \E c \in RecordKeys(call.pre) : c[1] # call.day_key

----------------------------------------------------------------------------
(* LockSpec: threads that call methods of the Status Store at the same     *)
(* time, each method taken step by step: it acquires _lock, reads the      *)
(* file, changes what it read, writes the temporary file, puts it in the   *)
(* place of the file, releases _lock.  threads.lock is the thread that     *)
(* holds _lock (0: none), threads.tmp the temporary file, threads.th[t]    *)
(* the call of thread t: where it is, what it read, what it returned (ret, *)
(* and seen, the list list_day returned).                                  *)

LockThreads == { 1, 2, 3 }

\* the calls a thread may make: two slots of one day key are written
LockOps ==
    { [op |-> "mark_sent", day_key |-> make_day_key(42, "2024-01-01"), slot |-> "09:00"],
      [op |-> "mark_sent", day_key |-> make_day_key(42, "2024-01-01"), slot |-> "15:00"],
      [op |-> "mark_confirmed", day_key |-> make_day_key(42, "2024-01-01"), slot |-> "09:00"],
      [op |-> "mark_skipped", day_key |-> make_day_key(42, "2024-01-01"), slot |-> "09:00"],
      [op |-> "list_day", day_key |-> make_day_key(42, "2024-01-01"), slot |-> ""] }

\* what the method of the call c of thread t does to the file contents f
\* it read, and what it returns
Method(f, c, t) ==
    IF c.op = "mark_sent"
    THEN mark_sent(f, c.day_key, c.slot, isoformat(t)) @@ [seen |-> {}]
    ELSE IF c.op = "mark_confirmed"
    THEN mark_confirmed(f, c.day_key, c.slot, isoformat(t)) @@ [seen |-> {}]
    ELSE IF c.op = "mark_skipped"
    THEN mark_skipped(f, c.day_key, c.slot, isoformat(t)) @@ [seen |-> {}]
    ELSE [file |-> f, ret |-> "None", seen |-> list_day(f, c.day_key)]

\* "with self._lock": Lock.acquire() goes on when no thread holds the lock
can_acquire_bug_no_lock(lk) == TRUE

can_acquire(lk) == lk = 0

LockInit ==
    /\ file = InitFile
    /\ call = NoCall
    /\ QuietInit
    /\ \E calls \in [LockThreads -> LockOps] :
           threads = [lock |-> 0, tmp |-> InitFile,
                      th |-> [t \in LockThreads |->
                                 [pc |-> "start", call |-> calls[t], data |-> EmptyDict,
                                  ret |-> "None", seen |-> {}]]]

lockFrame == <<call, subscribers, messages, photos, jobs, live, today, fired,
               dispatches, faults, presses, nags, ev>>

\* with self._lock:
LockAcquire ==
    \E t \in LockThreads :
        /\ threads.th[t].pc = "start"
        /\ can_acquire(threads.lock)
        /\ threads' = [threads EXCEPT !.lock = t, !.th[t].pc = "read"]
        /\ UNCHANGED <<file, lockFrame>>

\* data = self._read(), and what the method does with it up to _write
\* or to its return
LockRead ==
    \E t \in LockThreads :
        LET c == threads.th[t].call
            res == Method(file, c, t)
            writes == c.op = "mark_sent" \/ (c.op # "list_day" /\ res.ret = "True")
        IN  /\ threads.th[t].pc = "read"
            /\ threads' = [threads EXCEPT !.th[t].data = res.file,
                                          !.th[t].ret = res.ret,
                                          !.th[t].seen = res.seen,
                                          !.th[t].pc = IF writes THEN "write_tmp" ELSE "release"]
            /\ UNCHANGED <<file, lockFrame>>

\* _write: tmp.write_text(json.dumps(data))
LockWriteTmp ==
    \E t \in LockThreads :
        /\ threads.th[t].pc = "write_tmp"
        /\ threads' = [threads EXCEPT !.tmp = threads.th[t].data, !.th[t].pc = "replace"]
        /\ UNCHANGED <<file, lockFrame>>

\* _write: tmp.replace(self._file_path)
LockReplace ==
    \E t \in LockThreads :
        /\ threads.th[t].pc = "replace"
        /\ file' = threads.tmp
        /\ threads' = [threads EXCEPT !.th[t].pc = "release"]
        /\ UNCHANGED lockFrame

\* the end of the with block
LockRelease ==
    \E t \in LockThreads :
        /\ threads.th[t].pc = "release"
        /\ threads' = [threads EXCEPT !.lock = 0, !.th[t].pc = "done"]
        /\ UNCHANGED <<file, lockFrame>>

LockNext == LockAcquire \/ LockRead \/ LockWriteTmp \/ LockReplace \/ LockRelease

LockSpec == LockInit /\ [][LockNext]_vars

\* every thread has returned
AllDone == \A t \in LockThreads : threads.th[t].pc = "done"

\* the calls made one after the other in the order o: the file after the
\* first i of them
SerialFile(o) ==
    LET after[i \in 0..Len(o)] ==
            IF i = 0 THEN InitFile
            ELSE Method(after[i - 1], threads.th[o[i]].call, o[i]).file
    IN  after

\* the order o explains the run: the file is what the calls made one after
\* the other in this order leave, and every call returned what it returns
\* there
ExplainedBy(o) ==
    LET after == SerialFile(o)
    IN  /\ file = after[Len(o)]
        /\ \A i \in DOMAIN o :
               LET res == Method(after[i - 1], threads.th[o[i]].call, o[i])
               IN  /\ threads.th[o[i]].ret = res.ret
                   /\ threads.th[o[i]].seen = res.seen

(* C15: at most one thread is between acquiring and releasing the lock;    *)
(* and when the threads have all returned, there is an order of their      *)
(* calls such that the file is what the calls made one after the other in  *)
(* that order leave (no update is lost) and every call, list_day included, *)
(* returned what it returns in that order (list_day saw the file between   *)
(* two calls, never a part of one).                                        *)
C15_Serialized ==
    /\ Cardinality({ t \in LockThreads : threads.th[t].pc \notin {"start", "done"} }) <= 1
    /\ AllDone => \E o \in Orders(LockThreads) : ExplainedBy(o)

\* two threads wrote the two slots of the day, both records are in the file,
\* and list_day, called by the third, saw one of the two
C15_Witness ==
    /\ AllDone
    /\ Cardinality(RecordKeys(file)) = 2
    /\ \E t \in LockThreads :
           /\ threads.th[t].call.op = "list_day"
           /\ Cardinality(threads.th[t].seen) = 1

----------------------------------------------------------------------------
(* TrackerSpec: the Message Tracker alone.  Any method is called with any  *)
(* arguments; call keeps the last call, what it returned, the tracker as   *)
(* it was before, and hist, the calls made so far.                         *)

\* the (chat_id, day_key, slot) the calls are made with
TrackerKeys == { <<42, "2024-01-01", "09:00">>, <<42, "2024-01-01", "15:00">> }

\* message_id and file_id arguments
MessageIds == { 101, 102 }
FileIds == { <<"AgACAgIAAxkBAAI">> }

\* calls made at most
MaxCalls == 5

NoTrackerCall == [op |-> "none", key |-> <<0, "", "">>, arg |-> None, ret |-> None,
                  pre |-> [messages |-> EmptyDict, photos |-> EmptyDict], hist |-> <<>>]

TrackerInit == file = InitFile /\ call = NoTrackerCall /\ BotInit

TrackerCall(op, key, arg, msgs, ph, ret) ==
    /\ Len(call.hist) < MaxCalls
    /\ messages' = msgs
    /\ photos' = ph
    /\ call' = [op |-> op, key |-> key, arg |-> arg, ret |-> ret,
                pre |-> [messages |-> messages, photos |-> photos],
                hist |-> Append(call.hist, [op |-> op, key |-> key, arg |-> arg])]
    /\ UNCHANGED <<file, subscribers, threads, jobs, live, today, fired,
                   dispatches, faults, presses, nags, ev>>

CallAddMessage ==
    \E k \in TrackerKeys, id \in MessageIds :
        TrackerCall("add_message", k, id,
                    add_message(messages, k[1], k[2], k[3], id), photos, None)

CallSetPhoto ==
    \E k \in TrackerKeys, fid \in FileIds :
        TrackerCall("set_photo", k, fid,
                    messages, set_photo(photos, k[1], k[2], k[3], fid), None)

CallClearMessages ==
    \E k \in TrackerKeys :
        LET res == clear_messages(messages, photos, k[1], k[2], k[3])
        IN  TrackerCall("clear_messages", k, None, res.messages, res.photos, res.ret)

TrackerNext == CallAddMessage \/ CallSetPhoto \/ CallClearMessages

TrackerSpec == TrackerInit /\ [][TrackerNext]_vars

\* the ids given to add_message for key, in the order of the calls, since
\* the last clear_messages for key in the calls h
RECURSIVE AddedSince(_, _)
AddedSince(h, key) ==
    IF h = <<>> THEN <<>>
    ELSE LET last == h[Len(h)]
             rest == SubSeq(h, 1, Len(h) - 1)
         IN  IF last.key # key THEN AddedSince(rest, key)
             ELSE IF last.op = "clear_messages" THEN <<>>
             ELSE IF last.op = "add_message" THEN Append(AddedSince(rest, key), last.arg)
             ELSE AddedSince(rest, key)

\* the file_id last given to set_photo for key since the last clear_messages
\* for key in the calls h, None when there is none
RECURSIVE PhotoSince(_, _)
PhotoSince(h, key) ==
    IF h = <<>> THEN None
    ELSE LET last == h[Len(h)]
             rest == SubSeq(h, 1, Len(h) - 1)
         IN  IF last.key # key THEN PhotoSince(rest, key)
             ELSE IF last.op = "clear_messages" THEN None
             ELSE IF last.op = "set_photo" THEN last.arg
             ELSE PhotoSince(rest, key)

\* d without the key k
Without(d, k) == [x \in DOMAIN d \ {k} |-> d[x]]

(* C13: clear_messages for a key returns the ids added for the key since   *)
(* the previous clear of the key, in the order they were added, and the    *)
(* key's photo; it leaves nothing of the key behind, so that calling it    *)
(* again at once returns an empty list and no photo; and the entries of    *)
(* every other key are as they were.                                       *)
C13_ClearIsDrain ==
    call.op = "clear_messages" =>
        LET before == SubSeq(call.hist, 1, Len(call.hist) - 1)
            again  == clear_messages(messages, photos, call.key[1], call.key[2], call.key[3])
        IN  /\ call.ret = <<AddedSince(before, call.key), PhotoSince(before, call.key)>>
            /\ call.key \notin DOMAIN messages
            /\ call.key \notin DOMAIN photos
            /\ again.ret = <<<<>>, None>>
            /\ again.messages = messages
            /\ again.photos = photos
            /\ messages = Without(call.pre.messages, call.key)
            /\ photos = Without(call.pre.photos, call.key)

\* clear_messages returned two ids and a photo while the other key had
\* messages too
C13_Witness ==
    /\ call.op = "clear_messages"
    /\ Len(call.ret[1]) = 2
    /\ call.ret[2] # None
    /\ \E k \in DOMAIN messages : k # call.key /\ messages[k] # <<>>

----------------------------------------------------------------------------
(* RegistrySpec: the Subscriber Registry alone.  Any method is called with *)
(* any chat id; call keeps the last call, what it returned and the set as  *)
(* it was before.                                                          *)

\* the chat_id arguments
RegistryIds == { 1, 12, 42, 777 }

NoRegistryCall == [op |-> "none", x |-> 0, ret |-> "None", pre |-> {}]

RegistryInit == file = InitFile /\ call = NoRegistryCall /\ BotInit

RegistryCall(op, x, subs, ret) ==
    /\ subscribers' = subs
    /\ call' = [op |-> op, x |-> x, ret |-> ret, pre |-> subscribers]
    /\ UNCHANGED <<file, messages, photos, threads, jobs, live, today, fired,
                   dispatches, faults, presses, nags, ev>>

CallAdd == \E x \in RegistryIds : RegistryCall("add", x, add(subscribers, x), "None")

CallRemove == \E x \in RegistryIds : RegistryCall("remove", x, remove(subscribers, x), "None")

CallContains ==
    \E x \in RegistryIds :
        RegistryCall("contains", x, subscribers,
                     IF contains(subscribers, x) THEN "True" ELSE "False")

CallGetAll ==
    \E o \in Orders(get_all(subscribers)) : RegistryCall("get_all", 0, subscribers, o)

RegistryNext == CallAdd \/ CallRemove \/ CallContains \/ CallGetAll

RegistrySpec == RegistryInit /\ [][RegistryNext]_vars

\* how often x is in the list o
Occurrences(o, x) == Cardinality({ i \in DOMAIN o : o[i] = x })

(* C14: after add(x), whatever the set was, x is a member, every list      *)
(* get_all can return holds x exactly once, and one more add(x) changes    *)
(* nothing; after remove(x), member before or not, x is no member and one  *)
(* more remove(x) changes nothing; add(x) and remove(x) leave the          *)
(* membership of every other id as it was; contains and get_all report     *)
(* the set and leave it as it was.                                         *)
C14_IdempotentSet ==
    /\ call.op = "add" =>
            /\ contains(subscribers, call.x)
            /\ \A o \in Orders(get_all(subscribers)) : Occurrences(o, call.x) = 1
            /\ add(subscribers, call.x) = subscribers
    /\ call.op = "remove" =>
            /\ ~contains(subscribers, call.x)
            /\ \A o \in Orders(get_all(subscribers)) : Occurrences(o, call.x) = 0
            /\ remove(subscribers, call.x) = subscribers
    /\ call.op \in {"add", "remove"} =>
            \A y \in RegistryIds \ {call.x} :
                contains(subscribers, y) = contains(call.pre, y)
    /\ call.op = "contains" =>
            /\ subscribers = call.pre
            /\ call.ret = "True" <=> call.x \in call.pre
    /\ call.op = "get_all" =>
            /\ subscribers = call.pre
            /\ \A y \in RegistryIds :
                   Occurrences(call.ret, y) = IF y \in call.pre THEN 1 ELSE 0

\* add(x) was called for an x that was a member already, among other members
C14_Witness ==
    /\ call.op = "add"
    /\ call.x \in call.pre
    /\ Cardinality(subscribers) >= 2

----------------------------------------------------------------------------
(* The bot.  One action per handler; the inputs of a handler (who sends    *)
(* the command, which button is pressed, which network call fails) are     *)
(* chosen freely.  An action takes the limits L of the specification it is *)
(* part of: L.dispatches reminders at most are dispatched, L.faults        *)
(* network calls at most fail, L.presses button presses at most are        *)
(* handled (when L.count_presses), and the escalation notifications are    *)
(* counted in nags when L.count_nags.                                      *)

Init == file = InitFile /\ call = NoCall /\ BotInit

\* the state a handler starts from, with nothing noted yet
Begin ==
    [file |-> file, messages |-> messages, photos |-> photos, jobs |-> jobs, live |-> live, nags |-> nags,
     sent |-> <<>>, sched |-> <<>>, notice |-> FALSE, ret |-> "None",
     raised |-> FALSE, swallowed |-> FALSE, refused |-> FALSE]

\* the state a handler leaves
Commit(L, b) ==
    /\ file' = b.file
    /\ messages' = b.messages
    /\ photos' = b.photos
    /\ jobs' = b.jobs
    /\ live' = b.live
    /\ nags' = IF L.count_nags THEN b.nags ELSE nags
    /\ faults' = IF b.raised \/ b.swallowed THEN faults + 1 ELSE faults

\* strftime("%Y-%m-%d") of the clock
DayKey == Dates[today]

\* CONFIG.tz_aware_now.isoformat(): the clock moves on between two
\* dispatches, and its reading is the number of reminders dispatched
Now == isoformat(dispatches + 1)

\* /start
Start ==
    \E chat \in Chats :
        /\ subscribers' = add(subscribers, chat)
        /\ ev' = NoEvent
        /\ UNCHANGED <<file, call, photos, threads, messages, jobs, live, today, fired, dispatches, faults, presses, nags>>

\* /stop
Stop ==
    \E chat \in Chats :
        /\ subscribers' = IF contains(subscribers, chat) THEN remove(subscribers, chat)
                          ELSE subscribers
        /\ ev' = NoEvent
        /\ UNCHANGED <<file, call, photos, threads, messages, jobs, live, today, fired, dispatches, faults, presses, nags>>

\* midnight: the daily jobs are due again
NextDay ==
    /\ today < Len(Dates)
    /\ today' = today + 1
    /\ fired' = {}
    /\ ev' = NoEvent
    /\ UNCHANGED <<file, call, photos, threads, subscribers, messages, jobs, live, dispatches, faults, presses, nags>>

\* a daily reminder job runs send_reminder
SendReminder(L) ==
    \E slot \in ReminderSlots \ fired :
      \E order \in Orders(get_all(subscribers)) :
        \E failAt \in 0..Len(order) :
          LET b == send_reminder(Begin, order, DayKey, slot, Now, failAt)
          IN  /\ dispatches + Len(order) <= L.dispatches
              /\ failAt > 0 => faults < L.faults
              /\ Commit(L, b)
              /\ fired' = fired \cup {slot}
              /\ dispatches' = dispatches + Len(order)
              /\ ev' = [h |-> "send_reminder", slot |-> slot, day_key |-> DayKey,
                        subs |-> Range(order),
                        failed |-> IF failAt > 0 THEN {order[failAt]} ELSE {},
                        sent |-> b.sent, sched |-> b.sched, raised |-> b.raised]
              /\ UNCHANGED <<call, threads, subscribers, today, presses>>

\* what a command handler leaves in ev: nothing when it refused the command
CommandEvent(h, chat, slot, b) ==
    IF b.refused THEN NoEvent
    ELSE [h |-> h, chat |-> chat, day_key |-> DayKey, slot |-> slot,
          sent |-> b.sent, sched |-> b.sched, raised |-> b.raised]

\* /test
TestReminder(L) ==
    \E chat \in Chats, clk \in ClockReadings, ok \in BOOLEAN :
        LET b == test_reminder(Begin, subscribers, chat, DayKey, clk, Now, ok)
        IN  /\ dispatches < L.dispatches
            /\ ~ok => faults < L.faults
            /\ Commit(L, b)
            /\ dispatches' = IF b.refused THEN dispatches ELSE dispatches + 1
            /\ ev' = CommandEvent("test_reminder", chat, TestSlot(clk), b)
            /\ UNCHANGED <<call, threads, subscribers, today, fired, presses>>

\* /atest
AdminTestReminder(L) ==
    \E chat \in Chats, clk \in ClockReadings, failAt \in 0..2 :
        LET b == admin_test_reminder(Begin, chat, DayKey, clk, Now, failAt)
        IN  /\ dispatches < L.dispatches
            /\ failAt > 0 => faults < L.faults
            /\ Commit(L, b)
            /\ dispatches' = IF b.refused THEN dispatches ELSE dispatches + 1
            /\ ev' = CommandEvent("admin_test_reminder", chat, AdminTestSlot(clk), b)
            /\ UNCHANGED <<call, threads, subscribers, today, fired, presses>>

\* /atest_nag
AdminTestNag(L) ==
    \E chat \in Chats, clk \in ClockReadings, failAt \in 0..2 :
        LET b == admin_test_nag(Begin, chat, DayKey, clk, Now, failAt)
        IN  /\ dispatches < L.dispatches
            /\ failAt > 0 => faults < L.faults
            /\ Commit(L, b)
            /\ dispatches' = IF b.refused THEN dispatches ELSE dispatches + 1
            /\ ev' = CommandEvent("admin_test_nag", chat, AdminNagSlot(clk), b)
            /\ UNCHANGED <<call, threads, subscribers, today, fired, presses>>

\* a scheduled job comes due and runs send_nag_reminder
SendNagReminder(L) ==
    \E job \in BagToSet(jobs), ok \in BOOLEAN :
        LET b == send_nag_reminder(Begin, job, ok)
            d == job.data
        IN  /\ ~ok => faults < L.faults
            /\ Commit(L, b)
            /\ ev' = [h |-> "send_nag_reminder", chat |-> d.chat_id, day_key |-> d.day_key,
                      slot |-> d.slot, n |-> d.nag_count,
                      pre |-> StatusOf(file, make_day_key(d.chat_id, d.day_key), d.slot),
                      sent |-> b.sent, sched |-> b.sched, raised |-> b.raised]
            /\ UNCHANGED <<call, threads, subscribers, today, fired, dispatches, presses>>

\* what handle_callback leaves in ev, called for the message m with a
\* payload of the given kind
CallbackEvent(kind, action, m, fault, b) ==
    [h |-> "handle_callback", kind |-> kind, action |-> action, chat |-> m.chat,
     day_key |-> m.day_key, slot |-> m.slot,
     tracked |-> m.id \in Range(Get(messages, _make_key(m.chat, m.day_key, m.slot), <<>>)),
     pre |-> StatusOf(file, make_day_key(m.chat, m.day_key), m.slot),
     fault |-> [at |-> fault.at, kind |-> fault.kind],
     cancelled |-> BagCardinality(jobs) - BagCardinality(b.jobs),
     ret |-> b.ret, notice |-> b.notice, raised |-> b.raised]

\* the user presses confirm or skip on a message that still shows its buttons
HandleCallback(L) ==
    \E m \in live, action \in {"confirm", "skip"} :
      \E fault \in {NoFault} \cup
                    (IF faults < L.faults
                     THEN CallbackFaults(Len(Get(messages, _make_key(m.chat, m.day_key, m.slot), <<>>)))
                     ELSE {}) :
        LET data == callback_data(action, m.chat, m.day_key, m.slot)
            b == handle_callback(Begin, data, m.chat, m.id, Now, fault)
        IN  /\ L.count_presses => presses < L.presses
            /\ presses' = IF L.count_presses THEN presses + 1 ELSE presses
            /\ Commit(L, b)
            /\ ev' = CallbackEvent("ok", action, m, fault, b)
            /\ UNCHANGED <<call, threads, subscribers, today, fired, dispatches>>

\* The payloads of a callback query that no button of the message carries
\* (a client can send any data with a callback query): the chat of another
\* user in the place of the message's, a field missing, a field too many,
\* a chat id that is no number, an action that is neither confirm nor skip.
StaleKinds == {"other_chat", "short", "long", "not_int", "action"}

StaleData(kind, action, m) ==
    LET data == callback_data(action, m.chat, m.day_key, m.slot)
    IN  IF kind = "other_chat"
        THEN callback_data(action, CHOOSE c \in Chats : c # m.chat, m.day_key, m.slot)
        ELSE IF kind = "short" THEN SubSeq(data, 1, 3)
        ELSE IF kind = "long" THEN Append(data, <<"x">>)
        ELSE IF kind = "not_int" THEN [data EXCEPT ![2] = <<"x">>]
        ELSE [data EXCEPT ![1] = "later"]

\* a callback query with such a payload arrives for a message that shows
\* its buttons; it is counted with the faults
StaleCallback(L) ==
    \E m \in live, action \in {"confirm", "skip"}, kind \in StaleKinds :
        LET b == handle_callback(Begin, StaleData(kind, action, m), m.chat, m.id, Now, NoFault)
        IN  /\ faults < L.faults
            /\ L.count_presses => presses < L.presses
            /\ presses' = IF L.count_presses THEN presses + 1 ELSE presses
            /\ file' = b.file
            /\ messages' = b.messages
            /\ photos' = b.photos
            /\ jobs' = b.jobs
            /\ live' = b.live
            /\ faults' = faults + 1
            /\ ev' = CallbackEvent(kind, action, m, NoFault, b)
            /\ UNCHANGED <<call, threads, subscribers, today, fired, dispatches, nags>>

\* /aclear_day changes nothing itself: it tells the admin to delete the
\* records of the chat's day key from confirmations.json by hand.  The
\* admin doing so is counted with the faults.
ClearDay(L) ==
    \E chat \in AdminChats :
        /\ faults < L.faults
        /\ make_day_key(chat, DayKey) \in DOMAIN file
        /\ file' = Pop(file, make_day_key(chat, DayKey))
        /\ faults' = faults + 1
        /\ ev' = NoEvent
        /\ UNCHANGED <<call, photos, threads, subscribers, messages, jobs, live, today, fired, dispatches, presses, nags>>

(* Spec: every handler, the network calls all succeeding. *)
Reliable == [dispatches |-> MaxDispatches, faults |-> 0,
             count_presses |-> FALSE, presses |-> 0, count_nags |-> FALSE]

Next ==
    \/ Start
    \/ Stop
    \/ SendReminder(Reliable)
    \/ TestReminder(Reliable)
    \/ AdminTestReminder(Reliable)
    \/ AdminTestNag(Reliable)
    \/ SendNagReminder(Reliable)
    \/ HandleCallback(Reliable)

Spec == Init /\ [][Next]_vars

(* FaultSpec: every handler, with one fault at most: a network call that   *)
(* fails, the file edited by hand, or a callback query with a payload that *)
(* no button carries.                                                      *)
Unreliable == [dispatches |-> FaultDispatches, faults |-> MaxFaults,
               count_presses |-> TRUE, presses |-> MaxPresses, count_nags |-> FALSE]

FaultNext ==
    \/ Start
    \/ Stop
    \/ SendReminder(Unreliable)
    \/ TestReminder(Unreliable)
    \/ AdminTestReminder(Unreliable)
    \/ AdminTestNag(Unreliable)
    \/ ClearDay(Unreliable)
    \/ StaleCallback(Unreliable)
    \/ SendNagReminder(Unreliable)
    \/ HandleCallback(Unreliable)

FaultSpec == Init /\ [][FaultNext]_vars

(* DailySpec: the daily reminder, its timers and the presses, with one     *)
(* network call at most failing.                                           *)
UnreliableDaily == [dispatches |-> MaxDispatches, faults |-> MaxFaults,
                    count_presses |-> TRUE, presses |-> MaxPresses, count_nags |-> FALSE]

DailyNext ==
    \/ Start
    \/ Stop
    \/ SendReminder(UnreliableDaily)
    \/ SendNagReminder(UnreliableDaily)
    \/ HandleCallback(UnreliableDaily)

DailySpec == Init /\ [][DailyNext]_vars

(* NagSpec: the users' commands and presses and the timers, the           *)
(* escalation notifications counted, per chat, day and slot, in nags.      *)
Counted == [dispatches |-> MaxDispatches, faults |-> 0,
            count_presses |-> FALSE, presses |-> 0, count_nags |-> TRUE]

NagNext ==
    \/ Start
    \/ NextDay
    \/ TestReminder(Counted)
    \/ SendNagReminder(Counted)
    \/ HandleCallback(Counted)

NagSpec == Init /\ [][NagNext]_vars

(* RaceSpec: the daily reminder, its timers and the presses, with          *)
(* send_nag_reminder and handle_callback taken await by await.  The job    *)
(* queue runs a job as a task of its own on the event loop, so a handler   *)
(* that awaits a network call is suspended while another one runs.  The    *)
(* suspended handlers are kept in threads, each with its local variables.  *)
Racing == [dispatches |-> FaultDispatches, faults |-> 0,
           count_presses |-> FALSE, presses |-> 0, count_nags |-> FALSE]

\* the handlers suspended at one time, at most
MaxTasks == 2

\* threads without its i-th handler
Resumed(i) == SubSeq(threads, 1, i - 1) \o SubSeq(threads, i + 1, Len(threads))

\* a job comes due: send_nag_reminder reads the slot's status and returns,
\* or goes on to await send_message
NagBegin ==
    \E job \in BagToSet(jobs) :
        LET d == job.data
            pre == StatusOf(file, make_day_key(d.chat_id, d.day_key), d.slot)
        IN  /\ Len(threads) < MaxTasks
            /\ jobs' = job_done(jobs, job)
            /\ IF pre # "pending"
               THEN /\ threads' = threads
                    /\ ev' = [h |-> "send_nag_reminder", chat |-> d.chat_id,
                              day_key |-> d.day_key, slot |-> d.slot, n |-> d.nag_count,
                              pre |-> pre, sent |-> <<>>, sched |-> <<>>, raised |-> FALSE]
               ELSE /\ threads' = Append(threads,
                                         [h |-> "send_nag_reminder", chat |-> d.chat_id,
                                          day_key |-> d.day_key, slot |-> d.slot,
                                          n |-> d.nag_count, action |-> "none",
                                          id |-> <<>>, ids |-> <<>>, pre |-> pre, ret |-> "None"])
                    /\ ev' = NoEvent
            /\ UNCHANGED <<file, call, subscribers, messages, photos, live, today, fired, dispatches, faults, presses, nags>>

\* send_message returns: send_nag_reminder gives the message's id to the
\* tracker and schedules the next job
NagResume ==
    \E i \in DOMAIN threads :
        LET t == threads[i]
            id == FreshId(live, messages, t.chat, t.day_key, t.slot)
            next == nag_job(t.chat, t.day_key, t.slot, t.n + 1)
        IN  /\ t.h = "send_nag_reminder"
            /\ live' = live \cup {button_message(t.chat, id, t.day_key, t.slot)}
            /\ messages' = add_message(messages, t.chat, t.day_key, t.slot, id)
            /\ jobs' = IF t.n < NagLimit THEN run_once(jobs, next) ELSE jobs
            /\ threads' = Resumed(i)
            /\ ev' = [h |-> "send_nag_reminder", chat |-> t.chat, day_key |-> t.day_key,
                      slot |-> t.slot, n |-> t.n, pre |-> t.pre,
                      sent |-> <<[chat |-> t.chat, id |-> id]>>,
                      sched |-> IF t.n < NagLimit THEN <<next>> ELSE <<>>,
                      raised |-> FALSE]
            /\ UNCHANGED <<file, call, subscribers, photos, today, fired, dispatches, faults, presses, nags>>

\* the user presses confirm or skip on a message that shows its buttons:
\* handle_callback marks the record, drains the tracker and awaits the
\* network calls.  The updates are handled one after the other.
CallbackBegin ==
    \E m \in live, action \in {"confirm", "skip"} :
        LET parts == split3(callback_data(action, m.chat, m.day_key, m.slot))
            chat_id == int(parts[2])
            chat_day_key == make_day_key(chat_id, parts[3])
            marked == IF parts[1] = "confirm"
                      THEN mark_confirmed(file, chat_day_key, parts[4], Now)
                      ELSE mark_skipped(file, chat_day_key, parts[4], Now)
            cleared == clear_messages(messages, photos, chat_id, parts[3], parts[4])
        IN  /\ Len(threads) < MaxTasks
            /\ \A i \in DOMAIN threads : threads[i].h # "handle_callback"
            /\ file' = marked.file
            /\ messages' = cleared.messages
            /\ photos' = cleared.photos
            /\ threads' = Append(threads,
                                 [h |-> "handle_callback", chat |-> chat_id,
                                  day_key |-> parts[3], slot |-> parts[4], n |-> 0,
                                  action |-> parts[1], id |-> m.id, ids |-> cleared.ret[1],
                                  pre |-> StatusOf(file, chat_day_key, parts[4]),
                                  ret |-> marked.ret])
            /\ ev' = NoEvent
            /\ UNCHANGED <<call, subscribers, jobs, live, today, fired, dispatches, faults, presses, nags>>

\* the network calls return: the tracked messages and the pressed one are
\* deleted, the notice is sent, and handle_callback cancels the slot's jobs
CallbackResume ==
    \E i \in DOMAIN threads :
        LET t == threads[i]
            b == delete_loop(Begin, t.chat, t.ids, 1, t.id, NoFault)
            q == cancel_nag_reminders(jobs, t.chat, t.day_key, t.slot)
        IN  /\ t.h = "handle_callback"
            /\ live' = delete_message(b.live, t.chat, t.id)
            /\ jobs' = q
            /\ threads' = Resumed(i)
            /\ ev' = [h |-> "handle_callback", kind |-> "ok", action |-> t.action,
                      chat |-> t.chat, day_key |-> t.day_key, slot |-> t.slot,
                      tracked |-> t.id \in Range(t.ids), pre |-> t.pre,
                      fault |-> [at |-> NoFault.at, kind |-> NoFault.kind],
                      cancelled |-> BagCardinality(jobs) - BagCardinality(q),
                      ret |-> t.ret, notice |-> TRUE, raised |-> FALSE]
            /\ UNCHANGED <<file, call, subscribers, messages, photos, today, fired, dispatches, faults, presses, nags>>

RaceNext ==
    \/ Start
    \/ SendReminder(Racing)
    \/ NagBegin
    \/ NagResume
    \/ CallbackBegin
    \/ CallbackResume

RaceSpec == Init /\ [][RaceNext]_vars

(* EscalationSpec: the daily reminder and its timers while nobody presses  *)
(* a button, every send succeeding, the escalation notifications counted   *)
(* in nags.  The job queue runs every job that is due: a job that stays in *)
(* the queue is run at some time.                                          *)
Escalating == [dispatches |-> MaxDispatches, faults |-> 0,
               count_presses |-> FALSE, presses |-> 0, count_nags |-> TRUE]

EscalationNext ==
    \/ Start
    \/ Stop
    \/ SendReminder(Escalating)
    \/ SendNagReminder(Escalating)

EscalationSpec ==
    Init /\ [][EscalationNext]_vars /\ WF_vars(SendNagReminder(Escalating))

(* LossSpec: the daily reminder, /atest_nag, the timers and the presses,   *)
(* with one network call at most failing and the escalation notifications  *)
(* counted in nags.                                                        *)
Lossy == [dispatches |-> FaultDispatches, faults |-> MaxFaults,
          count_presses |-> TRUE, presses |-> MaxPresses, count_nags |-> TRUE]

LossNext ==
    \/ Start
    \/ SendReminder(Lossy)
    \/ AdminTestNag(Lossy)
    \/ SendNagReminder(Lossy)
    \/ HandleCallback(Lossy)

LossSpec == Init /\ [][LossNext]_vars


----------------------------------------------------------------------------
(* Properties of the bot *)

\* the part of the file f, of the tracker msgs and of the chats' button
\* messages lv that belongs to chat c
ChatFile(f, c) == [dk \in { k \in DOMAIN f : k[1] = c } |-> f[dk]]
ChatMessages(msgs, c) == [k \in { x \in DOMAIN msgs : x[1] = c } |-> msgs[k]]
ChatLive(lv, c) == { m \in lv : m.chat = c }

\* the jobs that are in the queue q2 in more copies than in q1
NewJobs(q1, q2) == { j \in BagToSet(q2) : CopiesIn(j, q2) > CopiesIn(j, q1) }

\* the step ran send_nag_reminder / send_reminder
NagStep == ev'.h = "send_nag_reminder"
DispatchStep == ev'.h = "send_reminder"

(* C1: a record that is confirmed is never skipped afterwards, and a       *)
(* record that is skipped is never confirmed afterwards: no step takes a   *)
(* record from one of the two statuses to the other.                       *)
C1_OneTerminalState ==
    [][\A c \in RecordKeys(file) :
          /\ StatusOf(file, c[1], c[2]) = "confirmed" => StatusOf(file', c[1], c[2]) # "skipped"
          /\ StatusOf(file, c[1], c[2]) = "skipped" => StatusOf(file', c[1], c[2]) # "confirmed"]_vars

(* C2: a record that is confirmed or skipped never is pending again: no    *)
(* step, a repeated dispatch for the same chat, day and slot included,     *)
(* takes a record from confirmed or skipped to pending.                    *)
C2_TerminalNeverPending ==
    [][\A c \in RecordKeys(file) :
          StatusOf(file, c[1], c[2]) \in {"confirmed", "skipped"}
              => StatusOf(file', c[1], c[2]) # "pending"]_vars

(* C6: a send_nag_reminder job that runs when its slot has no record or a  *)
(* record that is not pending does nothing: no message is sent, the        *)
(* tracker, the file and the chats are as they were, no job is scheduled   *)
(* (the queue only loses the job that ran), and no exception is raised.    *)
C6_StaleNagIsNoOp ==
    [][(NagStep /\ ev'.pre # "pending") =>
          /\ ev'.sent = <<>>
          /\ ev'.sched = <<>>
          /\ ~ev'.raised
          /\ file' = file
          /\ messages' = messages
          /\ live' = live
          /\ NewJobs(jobs, jobs') = {}
          /\ BagCardinality(jobs') = BagCardinality(jobs) - 1]_vars

\* a job ran for a slot whose record had been deleted
C6_AbsentRecord ==
    /\ ev.h = "send_nag_reminder"
    /\ ev.pre = "absent"

\* a job ran for a slot that was confirmed or skipped while the job was
\* left in the queue
C6_Witness ==
    /\ ev.h = "send_nag_reminder"
    /\ ev.pre \in {"confirmed", "skipped"}
    /\ StatusOf(file, make_day_key(ev.chat, ev.day_key), ev.slot) = ev.pre

(* C7: for every chat, day and slot, the number of escalation              *)
(* notifications sent for it is at most 6.                                 *)
C7_AtMostSixNags ==
    \A key \in DOMAIN nags : nags[key] <= NagLimit

(* C8: every job in the queue carries a nag_count in 1..6; a job with      *)
(* nag_count 6 that runs while its slot is pending sends its notification  *)
(* and schedules nothing; and a job with nag_count n+1 only comes into the *)
(* queue in a step that runs a job of the same chat, day and slot with     *)
(* nag_count n < 6.                                                        *)
C8_SequenceBounded ==
    [][/\ \A j \in BagToSet(jobs') : j.data.nag_count \in 1..NagLimit
       /\ (NagStep /\ ev'.n = NagLimit /\ ev'.pre = "pending" /\ ~ev'.raised) =>
              /\ Len(ev'.sent) = 1
              /\ \E m \in live' \ live : m.chat = ev'.chat /\ m.id = ev'.sent[1].id
              /\ NewJobs(jobs, jobs') = {}
       /\ \A j \in NewJobs(jobs, jobs') :
              j.data.nag_count > 1 =>
                  /\ NagStep
                  /\ ev'.n = j.data.nag_count - 1
                  /\ ev'.n < NagLimit
                  /\ nag_job(ev'.chat, ev'.day_key, ev'.slot, ev'.n) \in BagToSet(jobs)
                  /\ j = nag_job(ev'.chat, ev'.day_key, ev'.slot, ev'.n + 1)]_vars

\* the sixth job of a slot ran with the slot pending
C8_Witness ==
    /\ ev.h = "send_nag_reminder"
    /\ ev.n = NagLimit
    /\ ev.pre = "pending"
    /\ Len(ev.sent) = 1
    /\ ev.sched = <<>>

(* C9: send_reminder run while there is no subscriber sends nothing and    *)
(* leaves the file, the tracker, the job queue, the chats and the registry *)
(* as they were.                                                           *)
C9_EmptyRegistryDispatch ==
    [][(DispatchStep /\ subscribers = {}) =>
          /\ ev'.sent = <<>>
          /\ ev'.sched = <<>>
          /\ ~ev'.raised
          /\ file' = file
          /\ messages' = messages
          /\ jobs' = jobs
          /\ live' = live
          /\ subscribers' = subscribers]_vars

\* send_reminder ran with no subscriber while the file held records and the
\* queue held jobs
C9_Witness ==
    /\ ev.h = "send_reminder"
    /\ ev.subs = {}
    /\ subscribers = {}
    /\ DOMAIN file # {}
    /\ jobs # EmptyBag

(* C10: when send_reminder for slot s on day d ends with no send failing,  *)
(* every chat that was a subscriber when it began has a pending record for *)
(* (chat, d, s), was sent exactly one message, whose id is in the tracker  *)
(* under (chat, d, s), and has exactly one more job with nag_count 1 for   *)
(* (chat, d, s) in the queue; a chat that was no subscriber was sent       *)
(* nothing, and its records, tracked ids, messages and jobs are as they    *)
(* were.                                                                   *)
C10_DispatchPostcondition ==
    [][(DispatchStep /\ ~ev'.raised) =>
          LET d == ev'.day_key
              s == ev'.slot
              sentTo(c) == { i \in DOMAIN ev'.sent : ev'.sent[i].chat = c }
          IN  /\ \A c \in Chats :
                    IF c \in subscribers
                    THEN /\ StatusOf(file', make_day_key(c, d), s) = "pending"
                         /\ Cardinality(sentTo(c)) = 1
                         /\ \A i \in sentTo(c) :
                                /\ ev'.sent[i].id \in Range(Get(messages', _make_key(c, d, s), <<>>))
                                /\ ChatLive(live', c) \ ChatLive(live, c)
                                       = {button_message(c, ev'.sent[i].id, d, s)}
                         /\ CopiesIn(nag_job(c, d, s, 1), jobs')
                                = CopiesIn(nag_job(c, d, s, 1), jobs) + 1
                    ELSE /\ sentTo(c) = {}
                         /\ ChatFile(file', c) = ChatFile(file, c)
                         /\ ChatMessages(messages', c) = ChatMessages(messages, c)
                         /\ ChatLive(live', c) = ChatLive(live, c)
              /\ NewJobs(jobs, jobs') = { nag_job(c, d, s, 1) : c \in subscribers }
              /\ NewJobs(jobs', jobs) = {}
              /\ \A j \in NewJobs(jobs, jobs') : CopiesIn(j, jobs') = CopiesIn(j, jobs) + 1]_vars

\* send_reminder ran for a subscriber while another chat, no subscriber,
\* had a message with buttons and a job of its own
C10_Witness ==
    /\ ev.h = "send_reminder"
    /\ ~ev.raised
    /\ ev.subs # {}
    /\ Len(ev.sent) = Cardinality(ev.subs)
    /\ \E m \in live : m.chat \notin ev.subs
    /\ \E j \in BagToSet(jobs) : j.data.chat_id \notin ev.subs

\* what list_day reports for the slot, when it reports one item for it
TheRecord(f, day_key, slot) == CHOOSE item \in slot_status(f, day_key, slot) : TRUE

\* list_day reports exactly one item for the slot of the chat, and it is pending
OnePending(f, chat, day_key, slot) ==
    /\ Cardinality(slot_status(f, make_day_key(chat, day_key), slot)) = 1
    /\ TheRecord(f, make_day_key(chat, day_key), slot).status = "pending"

\* the step ran a test command's handler / handle_callback on a payload
\* that a button carries
TestStep == ev'.h \in {"test_reminder", "admin_test_reminder", "admin_test_nag"}
ResolutionStep == ev'.h = "handle_callback" /\ ev'.kind = "ok"

(* C11: after a dispatch (send_reminder for each subscriber, a test        *)
(* command for its chat) list_day reports exactly one record for the slot, *)
(* pending; after handle_callback for a confirm (skip) button of a slot    *)
(* that has a record, list_day reports one record for the slot, confirmed  *)
(* (skipped), with a confirmed_at that is not None and the sent_at it had. *)
C11_EndToEnd ==
    [][/\ (DispatchStep /\ ~ev'.raised) =>
              \A c \in subscribers : OnePending(file', c, ev'.day_key, ev'.slot)
       /\ (TestStep /\ ~ev'.raised) =>
              OnePending(file', ev'.chat, ev'.day_key, ev'.slot)
       /\ (ResolutionStep /\ ev'.pre # "absent") =>
              LET dk == make_day_key(ev'.chat, ev'.day_key)
                  old == TheRecord(file, dk, ev'.slot)
                  new == TheRecord(file', dk, ev'.slot)
              IN  /\ Cardinality(slot_status(file', dk, ev'.slot)) = 1
                  /\ new.status = IF ev'.action = "confirm" THEN "confirmed" ELSE "skipped"
                  /\ new.confirmed_at # None
                  /\ new.sent_at = old.sent_at]_vars

\* a pending record was skipped: it keeps its sent_at and has a later
\* confirmed_at
C11_Witness ==
    /\ ev.h = "handle_callback"
    /\ ev.kind = "ok"
    /\ ev.action = "skip"
    /\ ev.pre = "pending"
    /\ LET new == TheRecord(file, make_day_key(ev.chat, ev.day_key), ev.slot)
       IN  /\ new.status = "skipped"
           /\ new.sent_at # None
           /\ new.confirmed_at # None
           /\ new.confirmed_at # new.sent_at

\* the step ran handle_callback on a payload that no button carries
StaleStep == ev'.h = "handle_callback" /\ ev'.kind # "ok"

(* C12: handle_callback on a payload with another chat's id, with a field  *)
(* missing or too many, with a chat id that is no number, or with an       *)
(* action that is neither confirm nor skip leaves the file, the tracker    *)
(* and the job queue as they were and sends no resolution notice.          *)
C12_StaleResponseNoMutation ==
    [][StaleStep =>
          /\ file' = file
          /\ messages' = messages
          /\ jobs' = jobs
          /\ ~ev'.notice]_vars

\* the same for the payloads other than the one with a field too many
C12_RejectedPayloads ==
    [][(StaleStep /\ ev'.kind # "long") =>
          /\ file' = file
          /\ messages' = messages
          /\ jobs' = jobs
          /\ ~ev'.notice]_vars

\* the jobs of the queue q that are for the slot of the chat
SlotJobs(q, chat, day_key, slot) ==
    { j \in BagToSet(q) :
        j.data.chat_id = chat /\ j.data.day_key = day_key /\ j.data.slot = slot }

(* C16: when handle_callback for a confirm or skip button of a slot ends   *)
(* without an exception, no send_nag_reminder job for that chat, day and   *)
(* slot is in the queue, whatever its nag_count and in however many        *)
(* copies it was there.                                                    *)
C16_ResolutionCancelsTimers ==
    [][(ResolutionStep /\ ~ev'.raised) =>
          SlotJobs(jobs', ev'.chat, ev'.day_key, ev'.slot) = {}]_vars

\* a press cancelled two jobs of its slot
C16_Witness ==
    /\ ev.h = "handle_callback"
    /\ ev.kind = "ok"
    /\ ~ev.raised
    /\ ev.cancelled >= 2
    /\ SlotJobs(jobs, ev.chat, ev.day_key, ev.slot) = {}

\* what a press whose delete of a tracked message failed has to leave
\* behind: the tracker's entry for the slot is gone, the handler ended
\* without an exception, the notice was sent, no job of the slot is in the
\* queue, and one tracked message at most (the one whose delete failed)
\* still shows its buttons
AfterFailedDelete ==
    LET key == _make_key(ev'.chat, ev'.day_key, ev'.slot)
        tracked == Range(Get(messages, key, <<>>))
    IN  /\ key \notin DOMAIN messages'
        /\ ~ev'.raised
        /\ ev'.notice
        /\ SlotJobs(jobs', ev'.chat, ev'.day_key, ev'.slot) = {}
        /\ Cardinality({ m \in live' : m.chat = ev'.chat /\ m.id \in tracked }) <= 1

(* C17: when a delete_message of delete_reminder_messages fails during     *)
(* handle_callback for a confirm or skip button, whether with BadRequest   *)
(* or with another error (TimedOut, NetworkError), the tracker's entry for *)
(* the slot is drained, the handler ends without an exception, the other   *)
(* tracked messages are deleted, the notice is sent and no job of the slot *)
(* stays in the queue.                                                     *)
C17_DeleteFailureSwallowed ==
    [][(ResolutionStep /\ ev'.fault.at = "delete") => AfterFailedDelete]_vars

\* the same for a delete that fails with BadRequest
C17_BadRequestSwallowed ==
    [][(ResolutionStep /\ ev'.fault.at = "delete" /\ ev'.fault.kind = "BadRequest")
          => AfterFailedDelete]_vars

\* a delete failed with an error other than BadRequest
C17_OtherError ==
    /\ ev.h = "handle_callback"
    /\ ev.kind = "ok"
    /\ ev.fault.at = "delete"
    /\ ev.fault.kind = "Other"

(* C18: when send_reminder's send to one subscriber fails, every other     *)
(* subscriber has a pending record for the slot, was sent exactly one      *)
(* message, whose id is in the tracker under its slot, and has one more    *)
(* job with nag_count 1 for the slot in the queue.                         *)
C18_SendFailureIsolated ==
    [][(DispatchStep /\ ev'.failed # {}) =>
          LET d == ev'.day_key
              s == ev'.slot
              sentTo(c) == { i \in DOMAIN ev'.sent : ev'.sent[i].chat = c }
          IN  \A c \in subscribers \ ev'.failed :
                  /\ StatusOf(file', make_day_key(c, d), s) = "pending"
                  /\ Cardinality(sentTo(c)) = 1
                  /\ \A i \in sentTo(c) :
                         ev'.sent[i].id \in Range(Get(messages', _make_key(c, d, s), <<>>))
                  /\ CopiesIn(nag_job(c, d, s, 1), jobs')
                         = CopiesIn(nag_job(c, d, s, 1), jobs) + 1]_vars

\* the subscriber whose send failed has its record, and the subscribers
\* that were sent a message have record, tracked id and job
C18_ServedBeforeFailure ==
    [][(DispatchStep /\ ev'.failed # {}) =>
          LET d == ev'.day_key
              s == ev'.slot
          IN  /\ ev'.raised
              /\ \A c \in ev'.failed : StatusOf(file', make_day_key(c, d), s) = "pending"
              /\ \A i \in DOMAIN ev'.sent :
                     LET c == ev'.sent[i].chat
                     IN  /\ StatusOf(file', make_day_key(c, d), s) = "pending"
                         /\ ev'.sent[i].id \in Range(Get(messages', _make_key(c, d, s), <<>>))
                         /\ CopiesIn(nag_job(c, d, s, 1), jobs')
                                = CopiesIn(nag_job(c, d, s, 1), jobs) + 1]_vars

\* the send to the first of two subscribers failed
C18_FirstOfTwoFailed ==
    /\ ev.h = "send_reminder"
    /\ Cardinality(ev.subs) = 2
    /\ Cardinality(ev.failed) = 1
    /\ ev.sent = <<>>

(* C19: while the record of a slot is confirmed or skipped, no step other  *)
(* than a dispatch sends a message with buttons for that chat, day and     *)
(* slot or puts a job for it in the queue, whether or not the slot's jobs  *)
(* were cancelled.                                                         *)
C19_StatusCheckSuffices ==
    [][~(DispatchStep \/ TestStep) =>
          \A c \in RecordKeys(file) :
              StatusOf(file, c[1], c[2]) \in {"confirmed", "skipped"} =>
                  /\ \A m \in live' \ live :
                         ~(make_day_key(m.chat, m.day_key) = c[1] /\ m.slot = c[2])
                  /\ \A j \in NewJobs(jobs, jobs') :
                         ~(make_day_key(j.data.chat_id, j.data.day_key) = c[1]
                              /\ j.data.slot = c[2])]_vars

\* a job that comes due while its slot is confirmed or skipped is a no-op
C19_DueJobIsNoOp ==
    [][(NagStep /\ ev'.pre \in {"confirmed", "skipped"}) =>
          /\ ev'.sent = <<>>
          /\ ev'.sched = <<>>
          /\ live' = live
          /\ messages' = messages
          /\ NewJobs(jobs, jobs') = {}]_vars

\* send_nag_reminder went on after its slot was confirmed or skipped
C19_ResumedAfterResolution ==
    /\ ev.h = "send_nag_reminder"
    /\ ev.pre = "pending"
    /\ Len(ev.sent) = 1
    /\ StatusOf(file, make_day_key(ev.chat, ev.day_key), ev.slot) \in {"confirmed", "skipped"}

\* the records of f2 that f1 does not hold
NewKeys(f1, f2) == RecordKeys(f2) \ RecordKeys(f1)

C20_AbsentStaysAbsent ==
    [][(NagStep \/ ev'.h = "handle_callback") => NewKeys(file, file') = {}]_vars

\* a press for a slot that had no record
C20_PressOnAbsent ==
    /\ ev.h = "handle_callback"
    /\ ev.pre = "absent"
    /\ ev.ret = "False"

C21_AbsentResolutionNoOp ==
    [][(ResolutionStep /\ ev'.pre = "absent") =>
          /\ file' = file
          /\ ev'.ret = "False"
          /\ ~ev'.notice
          /\ messages' = messages
          /\ live' = live]_vars

\* what does hold for such a press: no record is created and the store's
\* mutator returns False
C21_AbsentNothingResolved ==
    [][(ResolutionStep /\ ev'.pre = "absent") =>
          /\ file' = file
          /\ ev'.ret = "False"]_vars

\* a button of a slot whose record is gone was pressed, and the notice sent
C21_NoticeForAbsent ==
    /\ ev.h = "handle_callback"
    /\ ev.kind = "ok"
    /\ ev.pre = "absent"
    /\ ev.notice

(* C22: in every state of the Status Store, every record of the file has  *)
(* a confirmed_at that is not None exactly when its status is confirmed or *)
(* skipped; a pending record, one that mark_sent wrote over a confirmed or *)
(* skipped one included, has confirmed_at None.                            *)
C22_ResolvedIffTimestamp ==
    \A c \in RecordKeys(file) :
        LET entry == file[c[1]][c[2]]
        IN  /\ entry.status \in {"pending", "confirmed", "skipped"}
            /\ (entry.confirmed_at # None) <=> (entry.status \in {"confirmed", "skipped"})

\* mark_sent wrote over a skipped record, which is pending again with no
\* confirmed_at, while another record of the file is confirmed
C22_Witness ==
    /\ call.op = "mark_sent"
    /\ StatusOf(call.pre, call.day_key, call.slot) = "skipped"
    /\ call.pre[call.day_key][call.slot].confirmed_at # None
    /\ file[call.day_key][call.slot].confirmed_at = None
    /\ \E c \in RecordKeys(file) : file[c[1]][c[2]].status = "confirmed"

(* C23: no step changes the sent_at of a record that the file holds,      *)
(* whether it runs handle_callback, send_nag_reminder, send_reminder or a  *)
(* test command for the same chat, day and slot.                           *)
C23_SentAtSetOnce ==
    [][\A c \in RecordKeys(file) :
          HasRecord(file', c[1], c[2]) =>
              file'[c[1]][c[2]].sent_at = file[c[1]][c[2]].sent_at]_vars

\* the same for the steps that run handle_callback or send_nag_reminder
C23_ResolutionKeepsSentAt ==
    [][(NagStep \/ ev'.h = "handle_callback") =>
          \A c \in RecordKeys(file) :
              HasRecord(file', c[1], c[2]) =>
                  file'[c[1]][c[2]].sent_at = file[c[1]][c[2]].sent_at]_vars

\* the number of jobs, copies counted, that the queue q holds for the slot
SlotJobCount(q, chat, day_key, slot) ==
    BagCardinality([j \in SlotJobs(q, chat, day_key, slot) |-> q[j]])

(* C24: in every state no two jobs of the queue have the same chat, day,   *)
(* slot and nag_count, and the queue holds 6 jobs at most for one chat,    *)
(* day and slot.                                                           *)
C24_TimersUniquelyNamed ==
    /\ \A j \in BagToSet(jobs) : CopiesIn(j, jobs) = 1
    /\ \A j \in BagToSet(jobs) :
           SlotJobCount(jobs, j.data.chat_id, j.data.day_key, j.data.slot) <= NagLimit

\* the escalation of the slot of the chat is over: six notifications were
\* sent, no job of the slot is in the queue, and the record is pending
EscalationOver(chat, day_key, slot) ==
    /\ Get(nags, _make_key(chat, day_key, slot), 0) = NagLimit
    /\ SlotJobs(jobs, chat, day_key, slot) = {}
    /\ StatusOf(file, make_day_key(chat, day_key), slot) = "pending"

(* C25: when nobody presses a button and every send succeeds, the k-th     *)
(* escalation notification of a slot is sent by the job with nag_count k,  *)
(* and once the slot's reminder is dispatched the escalation comes to an   *)
(* end and stays there: exactly 6 notifications were sent, no job of the   *)
(* slot is in the queue, and the record is pending.                        *)
C25_EscalationTerminates ==
    /\ [][NagStep => /\ Len(ev'.sent) = 1
                     /\ ev'.n = Get(nags, _make_key(ev'.chat, ev'.day_key, ev'.slot), 0) + 1
                     /\ ev'.n <= NagLimit]_vars
    /\ \A chat \in Chats : \A slot \in ReminderSlots :
           [](HasRecord(file, make_day_key(chat, Dates[1]), slot)
                 => <>[]EscalationOver(chat, Dates[1], slot))

\* the escalations of two chats are over
C25_Witness ==
    /\ \A chat \in Chats : \A slot \in ReminderSlots : EscalationOver(chat, Dates[1], slot)
    /\ ev.h = "send_nag_reminder"
    /\ ev.n = NagLimit
    /\ jobs = EmptyBag

(* C26: in every state, every message with confirm/skip buttons that is   *)
(* in a chat was sent for a chat, day and slot that has a record, and a    *)
(* handle_callback that ran for a button of such a message found the       *)
(* record: mark_confirmed / mark_skipped returned True.                    *)
C26_RecordBeforeNotification ==
    /\ \A m \in live : HasRecord(file, make_day_key(m.chat, m.day_key), m.slot)
    /\ (ev.h = "handle_callback" /\ ev.kind = "ok") =>
           /\ ev.pre # "absent"
           /\ ev.ret = "True"

\* the confirm button of a slot that had been skipped was pressed, while
\* a second message of a slot shows its buttons
C26_Witness ==
    /\ ev.h = "handle_callback"
    /\ ev.kind = "ok"
    /\ ev.action = "confirm"
    /\ ev.pre = "skipped"
    /\ ev.ret = "True"
    /\ \E m \in live : m.id[3] >= 2

\* no handler that is suspended works on the slot of the chat
NoneInProgress(chat, day_key, slot) ==
    \A i \in DOMAIN threads :
        ~(threads[i].chat = chat /\ threads[i].day_key = day_key /\ threads[i].slot = slot)

(* C27: with the handlers suspended at their awaits, in every state where  *)
(* the record of a slot is confirmed or skipped and no handler for the     *)
(* slot is in progress, the tracker holds no message id for the slot and   *)
(* no job of the slot is in the queue.                                     *)
C27_QuiescentAfterResolution ==
    \A c \in RecordKeys(file) :
        LET chat == c[1][1]
            day_key == c[1][2]
            slot == c[2]
        IN  (StatusOf(file, c[1], slot) \in {"confirmed", "skipped"}
                /\ NoneInProgress(chat, day_key, slot))
            => /\ Get(messages, _make_key(chat, day_key, slot), <<>>) = <<>>
               /\ SlotJobs(jobs, chat, day_key, slot) = {}

\* the record of the slot is pending, fewer than 6 escalation
\* notifications were sent for it, and no job of the slot is in the queue
Orphaned(f, q, counted, c) ==
    /\ StatusOf(f, c[1], c[2]) = "pending"
    /\ Get(counted, _make_key(c[1][1], c[1][2], c[2]), 0) < NagLimit
    /\ SlotJobs(q, c[1][1], c[1][2], c[2]) = {}

(* C28: in every state (handlers run to completion, so none is in          *)
(* progress), every record that is pending and for which fewer than 6      *)
(* escalation notifications were sent has a job of its slot in the queue,  *)
(* also after a send_message of send_reminder or send_nag_reminder failed. *)
C28_NoOrphanedPending ==
    \A c \in RecordKeys(file) : ~Orphaned(file, jobs, nags, c)

\* the same after the steps in which no send failed and that are not
\* /atest_nag: such a step orphans no record
C28_NoOrphanWithoutFailure ==
    [][(ev'.h \in {"send_reminder", "send_nag_reminder", "handle_callback"} /\ ~ev'.raised) =>
          \A c \in RecordKeys(file') :
              Orphaned(file', jobs', nags', c) => Orphaned(file, jobs, nags, c)]_vars

\* a send of send_reminder failed and left a pending record without a job
C28_OrphanAfterFailedSend ==
    /\ ev.h = "send_reminder"
    /\ ev.raised
    /\ \E c \in RecordKeys(file) : Orphaned(file, jobs, nags, c)

(* C29: send_reminder and send_nag_reminder send a message only to a chat *)
(* that is a subscriber when they run: a chat that was removed by /stop    *)
(* gets no reminder and no escalation notification until /start.           *)
C29_NoSendAfterOptOut ==
    [][(DispatchStep \/ NagStep) =>
          \A i \in DOMAIN ev'.sent : ev'.sent[i].chat \in subscribers]_vars

\* the same for send_reminder alone
C29_DispatchSkipsOptedOut ==
    [][DispatchStep =>
          \A i \in DOMAIN ev'.sent : ev'.sent[i].chat \in subscribers]_vars

\* send_nag_reminder sent a notification to a chat that is no subscriber
C29_NagAfterStop ==
    /\ ev.h = "send_nag_reminder"
    /\ ev.sent # <<>>
    /\ ev.chat \notin subscribers

SlotLive(lv, chat, day_key, slot) ==
    { m \in lv : m.chat = chat /\ m.day_key = day_key /\ m.slot = slot }

(* C31: after every step, every message with confirm/skip buttons that is  *)
(* in a chat for a pending slot has its id in the tracker under the slot's *)
(* key, whichever handler sent it; and when handle_callback for a button   *)
(* of a slot ends with no network call failing, no message with buttons    *)
(* for that slot is left in the chat.                                      *)
C31_EveryNotificationTracked ==
    [][/\ \A m \in live' :
              StatusOf(file', make_day_key(m.chat, m.day_key), m.slot) = "pending"
                  => m.id \in Range(Get(messages', _make_key(m.chat, m.day_key, m.slot), <<>>))
       /\ (ResolutionStep /\ ~ev'.raised /\ ev'.fault.at = "none") =>
              SlotLive(live', ev'.chat, ev'.day_key, ev'.slot) = {}]_vars

\* a button of an escalation notification was pressed, and the message
\* that /test had sent for the slot still shows its buttons
C31_TestMessageLeft ==
    /\ ev.h = "handle_callback"
    /\ ev.kind = "ok"
    /\ ev.tracked
    /\ ~ev.raised
    /\ SlotLive(live, ev.chat, ev.day_key, ev.slot) # {}

\* the slots of /test
TestSlots == { TestSlot(clk) : clk \in ClockReadings }

\* the same for the slots of send_reminder, /atest and /atest_nag
C31_TrackedUnlessTest ==
    [][/\ \A m \in live' :
              (m.slot \notin TestSlots
                  /\ StatusOf(file', make_day_key(m.chat, m.day_key), m.slot) = "pending")
                  => m.id \in Range(Get(messages', _make_key(m.chat, m.day_key, m.slot), <<>>))
       /\ (ResolutionStep /\ ~ev'.raised /\ ev'.slot \notin TestSlots) =>
              SlotLive(live', ev'.chat, ev'.day_key, ev'.slot) = {}]_vars

============================================================================
